---- MODULE Spec2Model ----
(***************************************************************************)
(* Model of the ninjapivot backend (src/backend/api_server.py): the jobs   *)
(* registry, upload_csv, the background coroutine process_job, the SSE     *)
(* generator job_progress and get_result, all running on one asyncio event *)
(* loop.  A coroutine keeps the loop from the moment it is resumed until   *)
(* its next await; the variable loop names the process_job execution that  *)
(* currently holds it (0 when every coroutine is suspended).               *)
(***************************************************************************)
EXTENDS Integers, Sequences, FiniteSets, TLC

(* ---------------------------- bounds ---------------------------------- *)
MaxJobs == 2
MaxSubs == 1
MaxPolls == 2

JobIds == 1..MaxJobs
SubIds == 1..MaxSubs

(* ------------------------- values and inputs --------------------------- *)
None == "None"

\* main.pdf holds "" (a zero-length file), "%PDF-A" or "%PDF-B", or is absent
Absent == "absent"

\* upload file names, as path tokens; the last token is the suffix
Filenames ==
    { <<"data", ".csv">>, <<"notes", ".txt">>, <<"sub", "/", "data", ".csv">> }

\* payloads: CSV text of several columns that pandas.read_csv parses, a body
\* it rejects (e.g. zero bytes or binary), and CSV text of a single column
Payloads == {"tabular", "nontabular", "single_column"}

\* the bodies the clients of one run upload: several-column data and
\* garbage, or single-column data
Workloads == { {"tabular", "nontabular"}, {"single_column"} }

Stages ==
    <<"accepted", "validating", "analyzing", "generating", "finalizing", "complete">>

StageSet == {Stages[i] : i \in 1..Len(Stages)}

\* random.choice(STATUS_MESSAGES.get(stage, ["Processing…"])): the lists of
\* the six stages are pairwise disjoint, so a message is represented by the
\* stage whose list it was drawn from.
get_humorous_status(stage) ==
    IF stage \in StageSet THEN stage ELSE "Processing"

VARIABLES
    jobs,     \* the global dict jobs: job_id -> job entry
    fs,       \* CACHE_DIR/<job_id>: the uploaded file, main.tex, main.pdf
    tasks,    \* the process_job executions scheduled through BackgroundTasks
    loop,     \* the execution that holds the event loop, 0 if none
    cwd,      \* process working directory: 0 = original, j = CACHE_DIR/j
    sub,      \* the job_progress generators
    resp,     \* the last HTTP response sent by upload_csv or get_result
    bodies,   \* the payloads the clients of this run upload
    args,     \* the arguments of a call of a function of the ninjapivot package
    ret,      \* what that call returned or raised
    doc,      \* the position of a gen_latex_document call
    pyplot,   \* matplotlib.pyplot: the open figures, and the files written
    workers   \* the positions of analyses that run at the same time

vars == <<jobs, fs, tasks, loop, cwd, sub, resp, bodies, args, ret, doc,
          pyplot, workers>>

(* ------------------------------ upload_csv ----------------------------- *)
endswith_csv(filename) == filename[Len(filename)] = ".csv"

HasDirectoryPart(filename) == \E i \in 1..Len(filename) : filename[i] = "/"

\* str(uuid.uuid4()): an identifier no earlier call returned.  Identifiers
\* are opaque, so the unused ones are handed out in increasing order.
uuid4 ==
    {id \in JobIds \ DOMAIN jobs : \A other \in JobIds \ DOMAIN jobs : id <= other}

NewJob ==
    [progress |-> 0,
     status_message |-> get_humorous_status("accepted"),
     is_complete |-> FALSE,
     pdf |-> None,
     error |-> None]

NewTask(job_id) ==
    [job_id |-> job_id, pc |-> "start", saved_cwd |-> 0, rc |-> -1, exc |-> None]

\* variant: the execution is scheduled twice
add_task_twice(ts, job_id) == Append(Append(ts, NewTask(job_id)), NewTask(job_id))

add_task(ts, job_id) == Append(ts, NewTask(job_id))

EmptyDir == [dir |-> FALSE, csv |-> Absent, tex |-> FALSE, pdf |-> Absent]

\* an HTTP response; seq alternates so that two consecutive equal answers
\* of get_result are told apart, disposition is the Content-Disposition
\* header
NoResp ==
    [op |-> None, status |-> 0, job_id |-> 0, body |-> None,
     disposition |-> None, seq |-> 0]

Respond(op, status, job_id, body, disposition) ==
    [op |-> op, status |-> status, job_id |-> job_id, body |-> body,
     disposition |-> disposition,
     seq |-> IF op = "result" THEN 1 - resp.seq ELSE resp.seq]

UploadRejected(filename, payload) ==
    /\ loop = 0
    /\ ~endswith_csv(filename)
    /\ resp' = Respond("upload", 400, 0, None, None)
    /\ UNCHANGED <<pyplot, workers, args, ret, doc, bodies, jobs, fs, tasks, loop, cwd, sub>>

UploadAccepted(filename, payload) ==
    /\ loop = 0
    /\ endswith_csv(filename)
    /\ \E job_id \in uuid4 :
        /\ jobs' = jobs @@ (job_id :> NewJob)
        /\ IF HasDirectoryPart(filename)
           THEN \* open(file_path, "wb") raises FileNotFoundError
                /\ fs' = [fs EXCEPT ![job_id].dir = TRUE]
                /\ tasks' = tasks
                /\ resp' = Respond("upload", 500, 0, None, None)
           ELSE /\ fs' = [fs EXCEPT ![job_id].dir = TRUE, ![job_id].csv = payload]
                /\ tasks' = add_task(tasks, job_id)
                /\ resp' = Respond("upload", 201, job_id, None, None)
    /\ UNCHANGED <<pyplot, workers, args, ret, doc, bodies, loop, cwd, sub>>

upload_csv == \E filename \in Filenames, payload \in bodies :
    \/ UploadRejected(filename, payload)
    \/ UploadAccepted(filename, payload)

(* ------------------------------ process_job ---------------------------- *)
JobOf(t) == tasks[t].job_id

\* execution t exists and its next statement is the one at label
At(t, label) == t \in DOMAIN tasks /\ tasks[t].pc = label

Goto(t, label) == tasks' = [tasks EXCEPT ![t].pc = label]

Raise(t, e) == tasks' = [tasks EXCEPT ![t].pc = "l199", ![t].exc = e]

\* job["status_message"] = get_humorous_status(stage)
SetStatus(t, from, stage, to) ==
    /\ At(t, from)
    /\ loop = t
    /\ jobs' = [jobs EXCEPT ![JobOf(t)].status_message = get_humorous_status(stage)]
    /\ Goto(t, to)
    /\ UNCHANGED <<pyplot, workers, args, ret, doc, bodies, fs, loop, cwd, sub, resp>>

\* job["progress"] = value; await asyncio.sleep(..) when suspend is TRUE
SetProgress(t, from, value, to, suspend) ==
    /\ At(t, from)
    /\ loop = t
    /\ jobs' = [jobs EXCEPT ![JobOf(t)].progress = value]
    /\ Goto(t, to)
    /\ loop' = IF suspend THEN 0 ELSE t
    /\ UNCHANGED <<pyplot, workers, args, ret, doc, bodies, fs, cwd, sub, resp>>

\* the scheduled coroutine is started: job = jobs[job_id], the try is entered
P101_begin(t) ==
    /\ At(t, "start")
    /\ loop = 0
    /\ JobOf(t) \in DOMAIN jobs
    /\ Goto(t, "l117")
    /\ loop' = t
    /\ UNCHANGED <<pyplot, workers, args, ret, doc, bodies, jobs, fs, cwd, sub, resp>>

P117_status_validating(t) == SetStatus(t, "l117", "validating", "l118")

P118_progress_20(t) == SetProgress(t, "l118", 20, "s119", TRUE)

\* df = pd.read_csv(file); output_dir.mkdir(parents=True, exist_ok=True)
P121_read_csv(t) ==
    /\ At(t, "s119")
    /\ loop = 0
    /\ IF cwd = 0 /\ fs[JobOf(t)].csv \in {"tabular", "single_column"}
       THEN /\ Goto(t, "l128")
            /\ fs' = [fs EXCEPT ![JobOf(t)].dir = TRUE]
       ELSE /\ Raise(t, "read_csv")
            /\ fs' = fs
    /\ loop' = t
    /\ UNCHANGED <<pyplot, workers, args, ret, doc, bodies, jobs, cwd, sub, resp>>

P128_status_analyzing(t) == SetStatus(t, "l128", "analyzing", "l129")

\* variant: the analyzing stage reports a smaller value than validating
P129_progress_10(t) == SetProgress(t, "l129", 10, "s130", TRUE)

P129_progress_40(t) == SetProgress(t, "l129", 40, "s130", TRUE)

\* with open(output_dir / "main.tex", "w") as f: f.write(tex)
P164_write_tex(t) ==
    /\ At(t, "s130")
    /\ loop = 0
    /\ \E ok \in BOOLEAN :
        IF ok /\ cwd = 0
        THEN /\ Goto(t, "l168")
             /\ fs' = [fs EXCEPT ![JobOf(t)].tex = TRUE]
        ELSE /\ Raise(t, "OSError")
             /\ fs' = fs
    /\ loop' = t
    /\ UNCHANGED <<pyplot, workers, args, ret, doc, bodies, jobs, cwd, sub, resp>>

\* variant: the generating stage is skipped
P168_status_finalizing(t) == SetStatus(t, "l168", "finalizing", "l169")

P168_status_generating(t) == SetStatus(t, "l168", "generating", "l169")

\* variant: the coroutine is suspended after progress 60, as it would be
\* if the renderer were awaited
P169_progress_60_await(t) == SetProgress(t, "l169", 60, "l173", TRUE)

P169_progress_60(t) == SetProgress(t, "l169", 60, "l173", FALSE)

\* variant: the coroutine is suspended once it has changed the directory
P173_chdir_await(t) ==
    /\ At(t, "l173")
    /\ loop = t
    /\ tasks' = [tasks EXCEPT ![t].pc = "l175", ![t].saved_cwd = cwd]
    /\ cwd' = JobOf(t)
    /\ loop' = 0
    /\ UNCHANGED <<pyplot, workers, args, ret, doc, bodies, jobs, fs, sub, resp>>

\* cwd = Path.cwd(); os.chdir(output_dir)
P173_chdir(t) ==
    /\ At(t, "l173")
    /\ loop = t
    /\ tasks' = [tasks EXCEPT ![t].pc = "l175", ![t].saved_cwd = cwd]
    /\ cwd' = JobOf(t)
    /\ UNCHANGED <<pyplot, workers, args, ret, doc, bodies, jobs, fs, loop, sub, resp>>

\* os.system("latexmk -lualatex -output-directory=./ ./main.tex"): what the
\* external renderer can do.  A run that exits 0 has written a PDF; a run
\* that exits non-zero has written nothing, a zero-length file, or a PDF
\* (lualatex still writes one after recoverable errors).
RenderOutcomes ==
    { [rc |-> 0, out |-> "%PDF-A"], [rc |-> 0, out |-> "%PDF-B"],
      [rc |-> 1, out |-> Absent], [rc |-> 1, out |-> ""],
      [rc |-> 1, out |-> "%PDF-A"] }

P175_latexmk(t) ==
    /\ At(t, "l175")
    /\ loop = t
    /\ \E r \in RenderOutcomes :
        \* the return value of os.system is discarded; rc records it
        /\ tasks' = [tasks EXCEPT ![t].pc = "l176", ![t].rc = r.rc]
        /\ fs' = IF cwd \in JobIds /\ r.out # Absent
                 THEN [fs EXCEPT ![cwd].pdf = r.out]
                 ELSE fs
    /\ UNCHANGED <<pyplot, workers, args, ret, doc, bodies, jobs, loop, cwd, sub, resp>>

\* os.chdir(cwd)
P176_chdir_back(t) ==
    /\ At(t, "l176")
    /\ loop = t
    /\ cwd' = tasks[t].saved_cwd
    /\ Goto(t, "l181")
    /\ UNCHANGED <<pyplot, workers, args, ret, doc, bodies, jobs, fs, loop, sub, resp>>

P181_status_finalizing(t) == SetStatus(t, "l181", "finalizing", "l182")

P182_progress_95(t) == SetProgress(t, "l182", 95, "s183", TRUE)

\* with open(pdf_path, "rb") as f: job["pdf"] = f.read()
P186_read_pdf(t) ==
    /\ At(t, "s183")
    /\ loop = 0
    /\ IF cwd = 0 /\ fs[JobOf(t)].pdf # Absent
       THEN /\ jobs' = [jobs EXCEPT ![JobOf(t)].pdf = fs[JobOf(t)].pdf]
            /\ Goto(t, "l191")
       ELSE /\ jobs' = jobs
            /\ Raise(t, "FileNotFoundError")
    /\ loop' = t
    /\ UNCHANGED <<pyplot, workers, args, ret, doc, bodies, fs, cwd, sub, resp>>

P191_status_complete(t) == SetStatus(t, "l191", "complete", "l192")

\* variant: the coroutine is suspended between progress 100 and is_complete
P192_progress_100_await(t) == SetProgress(t, "l192", 100, "l193", TRUE)

P192_progress_100(t) == SetProgress(t, "l192", 100, "l193", FALSE)

\* job["is_complete"] = True; await asyncio.sleep(2)
P193_is_complete(t) ==
    /\ At(t, "l193")
    /\ loop = t
    /\ jobs' = [jobs EXCEPT ![JobOf(t)].is_complete = TRUE]
    /\ Goto(t, "s195")
    /\ loop' = 0
    /\ UNCHANGED <<pyplot, workers, args, ret, doc, bodies, fs, cwd, sub, resp>>

\* the last sleep is over: the coroutine returns
P195_return(t) ==
    /\ At(t, "s195")
    /\ loop = 0
    /\ Goto(t, "done")
    /\ UNCHANGED <<pyplot, workers, args, ret, doc, bodies, jobs, fs, loop, cwd, sub, resp>>

\* except Exception as e: raise e -- the three assignments that follow the
\* raise (error, status_message = "Failed", is_complete = False) never run
P199_except(t) ==
    /\ At(t, "l199")
    /\ loop = t
    /\ Goto(t, "raised")
    /\ loop' = 0
    /\ UNCHANGED <<pyplot, workers, args, ret, doc, bodies, jobs, fs, cwd, sub, resp>>

process_job(t) ==
    \/ P101_begin(t)
    \/ P117_status_validating(t)
    \/ P118_progress_20(t)
    \/ P121_read_csv(t)
    \/ P128_status_analyzing(t)
    \/ P129_progress_40(t)
    \/ P164_write_tex(t)
    \/ P168_status_generating(t)
    \/ P169_progress_60(t)
    \/ P173_chdir(t)
    \/ P175_latexmk(t)
    \/ P176_chdir_back(t)
    \/ P181_status_finalizing(t)
    \/ P182_progress_95(t)
    \/ P186_read_pdf(t)
    \/ P191_status_complete(t)
    \/ P192_progress_100(t)
    \/ P193_is_complete(t)
    \/ P195_return(t)
    \/ P199_except(t)

(* ------------------------------ job_progress --------------------------- *)
\* the data dict of one SSE event (the timestamp is left out)
Snapshot(job_id) ==
    [job_id |-> job_id,
     progress |-> jobs[job_id].progress,
     status_message |-> jobs[job_id].status_message,
     is_complete |-> jobs[job_id].is_complete]

\* the value of last before the first event
NoSnapshot ==
    [job_id |-> 0, progress |-> 0, status_message |-> None, is_complete |-> FALSE]

\* sse_endpoint: StreamingResponse(job_progress(job_id)); nothing of the
\* generator has run yet
sse_endpoint(s, job_id) ==
    /\ loop = 0
    /\ sub[s].pc = "idle"
    /\ sub' = [sub EXCEPT ![s].pc = "ready", ![s].job_id = job_id]
    /\ UNCHANGED <<pyplot, workers, args, ret, doc, bodies, jobs, fs, tasks, loop, cwd, resp>>

\* variant: one generator shared by the subscribers of a job, an event is
\* delivered to all of them
job_progress_broadcast(s) ==
    /\ loop = 0
    /\ sub[s].pc \in {"ready", "sleeping"}
    /\ IF sub[s].job_id \notin DOMAIN jobs
       THEN sub' = [sub EXCEPT ![s].pc = "ended"]
       ELSE /\ sub[s].emitted < MaxPolls
            /\ sub' = [r \in DOMAIN sub |->
                        IF sub[r].job_id = sub[s].job_id
                            /\ sub[r].pc \in {"ready", "sleeping"}
                        THEN [sub[r] EXCEPT !.pc = "sleeping",
                                            !.last = Snapshot(sub[s].job_id),
                                            !.emitted = sub[s].emitted + 1]
                        ELSE sub[r]]
    /\ UNCHANGED <<pyplot, workers, args, ret, doc, bodies, jobs, fs, tasks, loop, cwd, resp>>

\* variant: jobs[job_id] in place of jobs.get(job_id), a KeyError for an
\* unknown job
job_progress_subscript(s) ==
    /\ loop = 0
    /\ sub[s].pc \in {"ready", "sleeping"}
    /\ IF sub[s].job_id \notin DOMAIN jobs
       THEN sub' = [sub EXCEPT ![s].pc = "error"]
       ELSE /\ sub[s].emitted < MaxPolls
            /\ sub' = [sub EXCEPT ![s].pc = "sleeping",
                                  ![s].last = Snapshot(sub[s].job_id),
                                  ![s].emitted = @ + 1]
    /\ UNCHANGED <<pyplot, workers, args, ret, doc, bodies, jobs, fs, tasks, loop, cwd, resp>>

\* one iteration of the while True loop: jobs.get, break or yield, then the
\* generator is suspended in asyncio.sleep(1)
job_progress(s) ==
    /\ loop = 0
    /\ sub[s].pc \in {"ready", "sleeping"}
    /\ IF sub[s].job_id \notin DOMAIN jobs
       THEN sub' = [sub EXCEPT ![s].pc = "ended"]
       ELSE /\ sub[s].emitted < MaxPolls
            /\ sub' = [sub EXCEPT ![s].pc = "sleeping",
                                  ![s].last = Snapshot(sub[s].job_id),
                                  ![s].emitted = @ + 1]
    /\ UNCHANGED <<pyplot, workers, args, ret, doc, bodies, jobs, fs, tasks, loop, cwd, resp>>

(* ------------------------------- get_result ---------------------------- *)
\* Python truthiness of job.get("pdf"): None and b"" are falsy
Truthy(pdf) == pdf # None /\ pdf # ""

\* variant: the test of job.get("pdf") is missing
ResultResponseNoPdfCheck(job_id, download) ==
    IF job_id \notin DOMAIN jobs \/ ~jobs[job_id].is_complete
    THEN Respond("result", 404, job_id, None, None)
    ELSE Respond("result", 200, job_id, jobs[job_id].pdf,
                 IF download THEN "attachment" ELSE "inline")

\* variant: the test of job.get("is_complete") is missing
ResultResponseNoCompleteCheck(job_id, download) ==
    IF job_id \notin DOMAIN jobs
    THEN Respond("result", 404, job_id, None, None)
    ELSE IF ~Truthy(jobs[job_id].pdf)
    THEN Respond("result", 500, job_id, None, None)
    ELSE Respond("result", 200, job_id, jobs[job_id].pdf,
                 IF download THEN "attachment" ELSE "inline")

ResultResponse(job_id, download) ==
    IF job_id \notin DOMAIN jobs \/ ~jobs[job_id].is_complete
    THEN Respond("result", 404, job_id, None, None)
    ELSE IF ~Truthy(jobs[job_id].pdf)
    THEN Respond("result", 500, job_id, None, None)
    ELSE Respond("result", 200, job_id, jobs[job_id].pdf,
                 IF download THEN "attachment" ELSE "inline")

\* variant: the entry is cleaned up once its PDF has been served
get_result_cleanup(job_id, download) ==
    /\ loop = 0
    /\ resp' = ResultResponse(job_id, download)
    /\ jobs' = IF resp'.status = 200
               THEN [jobs EXCEPT ![job_id].pdf = None]
               ELSE jobs
    /\ UNCHANGED <<pyplot, workers, args, ret, doc, bodies, fs, tasks, loop, cwd, sub>>

get_result(job_id, download) ==
    /\ loop = 0
    /\ resp' = ResultResponse(job_id, download)
    /\ UNCHANGED <<pyplot, workers, args, ret, doc, bodies, jobs, fs, tasks, loop, cwd, sub>>

\* no function of the ninjapivot package is called by the server
NoArgs == [df |-> <<>>, B |-> 0, n_clusters |-> 0, job_id |-> 0]

NoRet == [fn |-> None, exc |-> None]

NoDoc == [pc |-> "idle", saved_cwd |-> 0, rc |-> -1]

\* no figure is open and no plot file is written
NoPyplot == [figs |-> <<>>, saved |-> <<>>]

\* no analysis has been started
NoWorkers ==
    [correlation |-> [pc |-> "idle"],
     regression |-> [pc |-> "idle", target |-> 0, b |-> 0,
                     metrics |-> <<>>, regression_plots |-> <<>>],
     clustering |-> [pc |-> "idle", counts |-> <<>>]]

Init ==
    /\ jobs = <<>>
    /\ fs = [j \in JobIds |-> EmptyDir]
    /\ tasks = <<>>
    /\ loop = 0
    /\ cwd = 0
    /\ sub = [s \in SubIds |-> [job_id |-> 0, pc |-> "idle", last |-> NoSnapshot, emitted |-> 0]]
    /\ resp = NoResp
    /\ bodies \in Workloads
    /\ args = NoArgs
    /\ ret = NoRet
    /\ doc = NoDoc
    /\ pyplot = NoPyplot
    /\ workers = NoWorkers

Pipeline ==
    \/ upload_csv
    \/ \E t \in JobIds : process_job(t)

Subscribers ==
    \/ \E s \in SubIds, job_id \in JobIds : sse_endpoint(s, job_id)
    \/ \E s \in SubIds : job_progress(s)

Retrieval == \E job_id \in JobIds, download \in BOOLEAN : get_result(job_id, download)

Next == Pipeline \/ Subscribers \/ Retrieval

Spec == Init /\ [][Next]_vars

\* the observers only read jobs, so the pipeline can be studied without
\* them, with the subscribers alone, or with result retrieval alone
NextPipeline == Pipeline

SpecPipeline == Init /\ [][NextPipeline]_vars

NextProgress == Pipeline \/ Subscribers

SpecProgress == Init /\ [][NextProgress]_vars

NextResult == Pipeline \/ Retrieval

SpecResult == Init /\ [][NextResult]_vars

\* fairness: the event loop resumes every runnable process_job execution
FairPipeline ==
    SpecPipeline /\ \A t \in JobIds : WF_vars(process_job(t))

(* ------------------------- states of a job ----------------------------- *)
IsComplete(j) == j \in DOMAIN jobs /\ jobs[j].is_complete

\* what the except handler of process_job is written to record
IsFailed(j) ==
    j \in DOMAIN jobs /\ jobs[j].status_message = "Failed" /\ jobs[j].error # None

Terminal(j) == IsComplete(j) \/ IsFailed(j)

Stopped(t) == tasks[t].pc \in {"done", "raised"}

TerminalSnapshot(snap) == snap.is_complete \/ snap.status_message = "Failed"

(* ------------------------------- C1 ------------------------------------ *)
\* C1: an exception in any step of process_job does not leave process_job,
\* and once the pipeline has stopped the job is Complete or Failed, Failed
\* with an error recorded when a step raised.
C1_ExceptionEndsInFailed ==
    \A t \in DOMAIN tasks :
        /\ tasks[t].pc # "raised"
        /\ Stopped(t) => Terminal(JobOf(t))
        /\ (Stopped(t) /\ tasks[t].exc # None) => IsFailed(JobOf(t))

(* ------------------------------- C2 ------------------------------------ *)
\* C2: once a subscriber has emitted a terminal snapshot (is_complete, or
\* Failed), job_progress emits no further snapshot to it.
C2_StreamEndsAfterTerminal ==
    [][\A s \in SubIds :
         (sub[s].emitted > 0 /\ TerminalSnapshot(sub[s].last))
             => sub'[s].emitted = sub[s].emitted]_vars

(* ------------------------------- C3 ------------------------------------ *)
\* C3: every write to a job's progress is >= the value it replaces, and the
\* progress values of the successive snapshots of one subscriber never
\* decrease.
C3_ProgressMonotone ==
    [][/\ \A j \in DOMAIN jobs : jobs'[j].progress >= jobs[j].progress
       /\ \A s \in SubIds :
            sub[s].emitted > 0 =>
                /\ sub'[s].emitted >= sub[s].emitted
                /\ sub'[s].last.progress >= sub[s].last.progress]_vars

\* a subscriber's second snapshot shows the job complete while another
\* execution is still under way
C3_Witness ==
    \E s \in SubIds :
        /\ sub[s].emitted = 2
        /\ sub[s].last.progress = 100
        /\ \E t \in DOMAIN tasks : tasks[t].pc = "s130"

(* ------------------------------- C4 ------------------------------------ *)
\* C4: a get_result response carries the PDF bytes (200) exactly when the
\* job exists, is_complete is true and its pdf is present; it is 404
\* exactly when the job is unknown or not complete, and 500 exactly when
\* the job is complete and its pdf is missing (None or zero-length).
C4_ResultIff ==
    [][(resp' # resp /\ resp'.op = "result") =>
         LET j == resp'.job_id
             complete == j \in DOMAIN jobs /\ jobs[j].is_complete
             present == complete /\ jobs[j].pdf \in {"%PDF-A", "%PDF-B"}
         IN /\ resp'.status \in {200, 404, 500}
            /\ resp'.status = 200 <=> present
            /\ resp'.status = 200 => resp'.body = jobs[j].pdf
            /\ resp'.status # 200 => resp'.body = None
            /\ resp'.status = 404 <=> ~complete
            /\ resp'.status = 500 <=> (complete /\ ~present)]_vars

\* all three answers occur: the PDF of a complete job is being returned
\* while the other job is complete with a zero-length PDF
C4_Witness ==
    /\ resp.op = "result"
    /\ resp.status = 200
    /\ resp.body = jobs[resp.job_id].pdf
    /\ \E j \in DOMAIN jobs : jobs[j].is_complete /\ jobs[j].pdf = ""

(* ------------------------------- C5 ------------------------------------ *)
\* C5: a non-tabular payload is rejected at submission: no job in the
\* registry, no working directory and no scheduled execution ever stems
\* from one.
C5_NonTabularRejected ==
    \A j \in JobIds :
        fs[j].csv = "nontabular" =>
            /\ j \notin DOMAIN jobs
            /\ ~fs[j].dir
            /\ \A t \in DOMAIN tasks : tasks[t].job_id # j

(* ------------------------------- C6 ------------------------------------ *)
\* C6: an upload_csv answered 201 adds exactly one job entry, under an
\* identifier not in the registry before, with progress 0, not complete
\* and no PDF, leaves the other entries alone and schedules exactly one
\* process_job execution for that identifier; no two executions ever have
\* the same job identifier, so at most one is in flight per job.
C6_OneExecutionPerJob ==
    /\ [][(resp' # resp /\ resp'.op = "upload" /\ resp'.status = 201) =>
            LET j == resp'.job_id
            IN /\ j \notin DOMAIN jobs
               /\ DOMAIN jobs' = DOMAIN jobs \cup {j}
               /\ \A k \in DOMAIN jobs : jobs'[k] = jobs[k]
               /\ jobs'[j].progress = 0
               /\ ~jobs'[j].is_complete
               /\ jobs'[j].pdf = None
               /\ Len(tasks') = Len(tasks) + 1
               /\ SubSeq(tasks', 1, Len(tasks)) = tasks
               /\ tasks'[Len(tasks')].job_id = j
               /\ tasks'[Len(tasks')].pc = "start"]_vars
    /\ [](\A t1, t2 \in DOMAIN tasks :
            tasks[t1].job_id = tasks[t2].job_id => t1 = t2)
    /\ [][Len(tasks') # Len(tasks) => (resp' # resp /\ resp'.status = 201)]_vars

\* two executions, of two jobs, are suspended in the middle of the pipeline
C6_Witness ==
    /\ Len(tasks) = 2
    /\ tasks[1].pc = "s183"
    /\ tasks[2].pc = "s130"
    /\ tasks[1].job_id # tasks[2].job_id

(* ------------------------------- C7 ------------------------------------ *)
\* C7: under fair scheduling of the background executions, every job in the
\* registry eventually is Complete with progress 100, or Failed.
C7_EveryJobTerminates ==
    \A j \in JobIds :
        (j \in DOMAIN jobs) ~>
            ((IsComplete(j) /\ jobs[j].progress = 100) \/ IsFailed(j))

(* ------------------------------- C8 ------------------------------------ *)
StageProgress == <<0, 20, 40, 60, 95, 100>>

StageIndex(message) == CHOOSE i \in 1..Len(Stages) : Stages[i] = message

\* C8: a job starts Accepted with progress 0; its status message only moves
\* to the next stage of Accepted, Validating, Analyzing, Generating,
\* Finalizing, Complete, and only when the progress of the stage before is
\* written; its progress only moves to the value of the stage its status
\* message names (0, 20, 40, 60, 95, 100); is_complete is set only at
\* Complete with progress 100; Failed is entered only from a job that is
\* not complete; a Complete or Failed entry never changes again.
C8_StagesInOrder ==
    /\ [](\A j \in DOMAIN jobs : jobs[j].status_message \in StageSet \cup {"Failed"})
    /\ [][\A j \in DOMAIN jobs' :
            IF j \notin DOMAIN jobs
            THEN /\ jobs'[j].status_message = Stages[1]
                 /\ jobs'[j].progress = StageProgress[1]
                 /\ ~jobs'[j].is_complete
            ELSE LET old == jobs[j]
                     new == jobs'[j]
                 IN /\ (old.is_complete \/ IsFailed(j)) => new = old
                    /\ (new.status_message # old.status_message
                            /\ new.status_message # "Failed") =>
                          /\ old.status_message # "Failed"
                          /\ StageIndex(new.status_message)
                                = StageIndex(old.status_message) + 1
                          /\ old.progress
                                = StageProgress[StageIndex(old.status_message)]
                          /\ new.progress = old.progress
                    /\ new.progress # old.progress =>
                          /\ new.status_message = old.status_message
                          /\ new.status_message # "Failed"
                          /\ new.progress
                                = StageProgress[StageIndex(old.status_message)]
                          /\ StageIndex(old.status_message) > 1
                          /\ old.progress
                                = StageProgress[StageIndex(old.status_message) - 1]
                    /\ (new.is_complete /\ ~old.is_complete) =>
                          /\ old.status_message = "complete"
                          /\ old.progress = 100
                    /\ (new.status_message = "Failed"
                            /\ old.status_message # "Failed") =>
                          ~old.is_complete]_vars

\* one job went through all six stages while the other is at Generating
C8_Witness ==
    /\ \E t \in DOMAIN tasks :
         /\ tasks[t].pc = "done"
         /\ jobs[JobOf(t)].is_complete
         /\ jobs[JobOf(t)].progress = 100
    /\ \E t \in DOMAIN tasks :
         /\ tasks[t].pc = "l175"
         /\ jobs[JobOf(t)].status_message = "generating"
         /\ jobs[JobOf(t)].progress = 60

(* ------------------------------- C9 ------------------------------------ *)
\* C9: when latexmk has exited with a non-zero status, or has returned and
\* left no main.pdf, the job is never Complete, and it is Failed once the
\* pipeline has stopped.
C9_RenderFailureFailsJob ==
    \A t \in DOMAIN tasks :
        (tasks[t].rc # -1 /\ (tasks[t].rc # 0 \/ fs[JobOf(t)].pdf = Absent)) =>
            /\ ~jobs[JobOf(t)].is_complete
            /\ Stopped(t) => IsFailed(JobOf(t))

(* ------------------------------- C10 ----------------------------------- *)
\* the pipeline of job j has ended with an exception
PipelineFailed(j) ==
    \/ IsFailed(j)
    \/ \E t \in DOMAIN tasks : tasks[t].job_id = j /\ tasks[t].pc = "raised"

\* C10: get_result for a job whose pipeline failed answers 404 and carries
\* no PDF bytes, whatever the stage of the failure.
C10_FailedJobHasNoResult ==
    /\ [][(resp' # resp /\ resp'.op = "result" /\ PipelineFailed(resp'.job_id)) =>
            (resp'.status = 404 /\ resp'.body = None)]_vars
    /\ []((resp.op = "result" /\ PipelineFailed(resp.job_id)) =>
            (resp.status = 404 /\ resp.body = None))

\* 404 is the answer for a job that failed at the last stage, reading a
\* main.pdf the renderer did not write
C10_Witness ==
    /\ resp.op = "result"
    /\ resp.status = 404
    /\ \E t \in DOMAIN tasks :
         /\ tasks[t].job_id = resp.job_id
         /\ tasks[t].pc = "raised"
         /\ tasks[t].exc = "FileNotFoundError"
         /\ jobs[resp.job_id].progress = 95

(* ------------------------------- C11 ----------------------------------- *)
\* C11: a job whose upload is a single-column dataset never is Complete, is
\* Failed once its pipeline has stopped, and get_result for it never
\* answers 200.
C11_SingleColumnFails ==
    /\ \A t \in DOMAIN tasks :
         fs[JobOf(t)].csv = "single_column" =>
            /\ ~jobs[JobOf(t)].is_complete
            /\ Stopped(t) => IsFailed(JobOf(t))
    /\ (resp.op = "result" /\ resp.job_id \in DOMAIN jobs
            /\ fs[resp.job_id].csv = "single_column") => resp.status # 200

(* ------------------------------- C12 ----------------------------------- *)
\* a get_result call for job j is answered in this step
ResultStep(j) == resp' # resp /\ resp'.op = "result" /\ resp'.job_id = j

\* C12: get_result leaves the jobs registry unchanged; every call for a
\* completed job with a PDF returns the stored bytes, which never change
\* once the job is complete, so a call returns the same bytes as the call
\* before it for the same job, whatever pipeline steps and submissions
\* came in between.
C12_ResultIdempotent ==
    /\ [][\A j \in JobIds : ResultStep(j) => jobs' = jobs]_vars
    /\ [][\A j \in DOMAIN jobs :
            (jobs[j].is_complete /\ Truthy(jobs[j].pdf)) =>
                /\ jobs'[j] = jobs[j]
                /\ ResultStep(j) =>
                     (resp'.status = 200 /\ resp'.body = jobs[j].pdf)]_vars
    /\ []((resp.op = "result" /\ resp.status = 200) =>
            (jobs[resp.job_id].is_complete /\ resp.body = jobs[resp.job_id].pdf))
    /\ [][\A j \in JobIds :
            (resp.op = "result" /\ resp.job_id = j /\ resp.status = 200
                /\ ResultStep(j)) =>
                    (resp'.status = 200 /\ resp'.body = resp.body)]_vars

\* the PDF of a complete job has been returned a second time, inline after
\* a download, after the other job was submitted and ran to completion
C12_Witness ==
    /\ resp.op = "result"
    /\ resp.status = 200
    /\ resp.seq = 0
    /\ resp.disposition = "inline"
    /\ resp.body = jobs[resp.job_id].pdf
    /\ \E j \in DOMAIN jobs : j # resp.job_id /\ jobs[j].is_complete

(* ------------------------------- C13 ----------------------------------- *)
\* C13: a poll of job_progress for a job identifier that is not in the
\* registry, at the first poll or at a later one, ends the sequence: it
\* emits no snapshot and raises nothing, and an ended sequence never emits
\* again.
C13_UnknownJobEndsStream ==
    /\ [][\A s \in SubIds :
            (sub[s].pc \in {"ready", "sleeping"}
                /\ sub[s].job_id \notin DOMAIN jobs /\ sub'[s] # sub[s]) =>
                    sub'[s] = [sub[s] EXCEPT !.pc = "ended"]]_vars
    /\ [][\A s \in SubIds : sub[s].pc = "ended" => sub'[s] = sub[s]]_vars
    /\ [](\A s \in SubIds :
            /\ sub[s].pc \in {"idle", "ready", "sleeping", "ended"}
            /\ sub[s].pc = "ended" => (sub[s].emitted = 0 /\ sub[s].last = NoSnapshot))

\* the sequence for an identifier no upload had returned ended with nothing
\* emitted, while the registry holds another job that is being processed
C13_Witness ==
    \E s \in SubIds :
        /\ sub[s].pc = "ended"
        /\ sub[s].emitted = 0
        /\ sub[s].job_id \notin DOMAIN jobs
        /\ \E t \in DOMAIN tasks : tasks[t].pc = "s130"

(* ------------------------------- C14 ----------------------------------- *)
\* one subscriber more than SubIds, so that two sequences are open at once
Watchers == 1..(MaxSubs + 1)

InitFanout ==
    /\ jobs = <<>>
    /\ fs = [j \in JobIds |-> EmptyDir]
    /\ tasks = <<>>
    /\ loop = 0
    /\ cwd = 0
    /\ sub = [s \in Watchers |-> [job_id |-> 0, pc |-> "idle", last |-> NoSnapshot, emitted |-> 0]]
    /\ resp = NoResp
    /\ bodies = {"tabular", "nontabular"}
    /\ args = NoArgs
    /\ ret = NoRet
    /\ doc = NoDoc
    /\ pyplot = NoPyplot
    /\ workers = NoWorkers

NextFanout ==
    \/ Pipeline
    \/ \E s \in Watchers, job_id \in JobIds : sse_endpoint(s, job_id)
    \/ \E s \in Watchers : job_progress(s)

SpecFanout == InitFanout /\ [][NextFanout]_vars

\* the execution of job j runs a statement in this step
Executes(j) ==
    \E t \in DOMAIN tasks :
        /\ tasks[t].job_id = j
        /\ tasks'[t].pc # tasks[t].pc
        /\ loop \in {0, t}

\* C14: an entry enters the registry only in an upload_csv answered 201, as
\* the initial entry; an entry changes only in a step of the process_job
\* execution of its own job, and a step changes one entry at most; a step
\* of sse_endpoint or job_progress changes the state of one subscriber and
\* nothing else, and the snapshot it emits is the entry of the job at that
\* instant, whatever the other subscribers of the job have done; a
\* get_result step leaves the registry alone.
C14_OnlyOwnPipelineWrites ==
    [][/\ \A j \in DOMAIN jobs' :
            IF j \notin DOMAIN jobs
            THEN /\ resp'.op = "upload" /\ resp'.status \in {201, 500}
                 /\ jobs'[j] = NewJob
                 /\ \A k \in DOMAIN jobs : jobs'[k] = jobs[k]
            ELSE jobs'[j] # jobs[j] =>
                    /\ Executes(j)
                    /\ \A k \in DOMAIN jobs \ {j} : jobs'[k] = jobs[k]
       /\ DOMAIN jobs \subseteq DOMAIN jobs'
       /\ sub' # sub =>
            /\ UNCHANGED <<pyplot, workers, jobs, fs, tasks, loop, cwd, resp>>
            /\ \E s \in DOMAIN sub :
                 /\ \A r \in DOMAIN sub \ {s} : sub'[r] = sub[r]
                 /\ sub'[s].emitted # sub[s].emitted =>
                      /\ sub'[s].emitted = sub[s].emitted + 1
                      /\ sub'[s].job_id = sub[s].job_id
                      /\ sub'[s].last = Snapshot(sub[s].job_id)
       /\ \A j \in JobIds : ResultStep(j) => jobs' = jobs]_vars

\* two subscribers of one job hold different snapshots of it, the second
\* one polled twice while the job went on, and the other job is untouched
C14_Witness ==
    \E s, r \in DOMAIN sub :
        /\ s # r
        /\ sub[s].job_id = sub[r].job_id
        /\ sub[s].emitted = 1
        /\ sub[r].emitted = 2
        /\ sub[s].last.progress = 20
        /\ sub[r].last.progress = 95
        /\ \E j \in DOMAIN jobs : j # sub[s].job_id /\ jobs[j] = NewJob

(* ------------------------------- C19 ----------------------------------- *)
\* the status message, progress and is_complete of e belong to one stage
OneStage(e) ==
    /\ e.status_message \in StageSet
    /\ e.progress = StageProgress[StageIndex(e.status_message)]
    /\ e.is_complete <=> e.progress = 100

\* C19: whenever an observer can run (no process_job execution holds the
\* event loop) every job entry shows the status message, progress and
\* is_complete of one stage, and so does every snapshot job_progress has
\* emitted and the entry behind every answer of get_result; progress 100
\* is never seen with is_complete false.
C19_TransitionsAtomic ==
    /\ loop = 0 => \A j \in DOMAIN jobs : OneStage(jobs[j])
    /\ \A s \in SubIds : sub[s].emitted > 0 => OneStage(sub[s].last)
    /\ (resp.op = "result" /\ resp.status # 404) =>
            (jobs[resp.job_id].progress = 100 /\ jobs[resp.job_id].is_complete)

\* a snapshot of the complete job and a 404 of get_result for the other
\* job, taken while that job was suspended at Finalizing
C19_Witness ==
    /\ loop = 0
    /\ \E s \in SubIds :
         /\ sub[s].emitted = 2
         /\ sub[s].last.status_message = "complete"
         /\ sub[s].last.is_complete
    /\ resp.op = "result"
    /\ resp.status = 404
    /\ \E t \in DOMAIN tasks :
         /\ tasks[t].pc = "s183"
         /\ tasks[t].job_id = resp.job_id
         /\ jobs[resp.job_id].progress = 95

(* ------------------------------- C20 ----------------------------------- *)
\* C20: a job with is_complete true has progress 100 and its pdf set; a job
\* whose pipeline ended in failure has its error set; the pdf is stored
\* before is_complete becomes true and never changes afterwards.
C20_TerminalStatesCarryResultOrError ==
    /\ [](\A j \in DOMAIN jobs :
            /\ jobs[j].is_complete => (jobs[j].progress = 100 /\ jobs[j].pdf # None)
            /\ PipelineFailed(j) => jobs[j].error # None)
    /\ [][\A j \in DOMAIN jobs :
            /\ (jobs'[j].is_complete /\ ~jobs[j].is_complete) => jobs[j].pdf # None
            /\ jobs[j].is_complete => jobs'[j].pdf = jobs[j].pdf]_vars

(* ======================= the ninjapivot package ======================== *)
(* ------------------------------ datasets ------------------------------- *)
MaxRows == 3

MaxCols == 2

\* the cells of a column: the numbers 0 and 1 in a numeric column, the
\* letters "a" and "b" (by their rank in the alphabet) in a categorical one
Cells == {0, 1}

Kinds == {"numeric", "categorical"}

\* a pandas.DataFrame: a sequence of columns of one length, named by their
\* position; there are DataFrames with no row
Datasets ==
    UNION { [1..c -> [kind : Kinds, values : [1..r -> Cells]]] :
                r \in 0..MaxRows, c \in 1..MaxCols }

NRows(df) == Len(df[1].values)

NCols(df) == Len(df)

\* Series.astype('category').cat.codes: the rank of each cell among the
\* distinct cells of the column
cat_codes(values) ==
    [i \in 1..Len(values) |->
        Cardinality({v \in {values[k] : k \in 1..Len(values)} : v < values[i]})]

\* the loop that replaces every non-numeric column by its codes
to_numeric(df) ==
    [c \in 1..Len(df) |->
        IF df[c].kind = "numeric" THEN df[c].values ELSE cat_codes(df[c].values)]

RECURSIVE SumProducts(_, _, _)
SumProducts(x, y, n) == IF n = 0 THEN 0 ELSE x[n] * y[n] + SumProducts(x, y, n - 1)

RECURSIVE SumOf(_, _)
SumOf(x, n) == IF n = 0 THEN 0 ELSE x[n] + SumOf(x, n - 1)

RECURSIVE gcd(_, _)
gcd(a, b) == IF b = 0 THEN a ELSE gcd(b, a % b)

(* ----------------------- get_correlation_matrix ------------------------ *)
\* a correlation coefficient r, in exact arithmetic: not-a-number, or its
\* sign and its square p / q in lowest terms
NaN == [nan |-> TRUE, sign |-> 0, p |-> 0, q |-> 0]

Zero == [nan |-> FALSE, sign |-> 0, p |-> 0, q |-> 1]

One == [nan |-> FALSE, sign |-> 1, p |-> 1, q |-> 1]

\* scipy.stats.pearsonr(x, y): ValueError for fewer than two observations,
\* else the coefficient r, not-a-number (0 / 0) when x or y is constant
pearsonr(x, y) ==
    LET n == Len(x)
        cov == n * SumProducts(x, y, n) - SumOf(x, n) * SumOf(y, n)
        varx == n * SumProducts(x, x, n) - SumOf(x, n) * SumOf(x, n)
        vary == n * SumProducts(y, y, n) - SumOf(y, n) * SumOf(y, n)
        g == gcd(cov * cov, varx * vary)
    IN  IF n < 2 THEN [exc |-> "ValueError", r |-> NaN]
        ELSE IF varx * vary = 0 THEN [exc |-> None, r |-> NaN]
        ELSE [exc |-> None,
              r |-> [nan |-> FALSE,
                     sign |-> IF cov > 0 THEN 1 ELSE IF cov < 0 THEN -1 ELSE 0,
                     p |-> (cov * cov) \div g,
                     q |-> (varx * vary) \div g]]

\* the two nested loops over the columns, pair number k of c * c pairs in
\* row-major order: for i <= j the coefficient is stored at [i, j] and at
\* [j, i]; an exception of pearsonr ends the call
RECURSIVE FillMatrix(_, _, _)
FillMatrix(matrix, x, k) ==
    LET c == Len(x)
        i == ((k - 1) \div c) + 1
        j == ((k - 1) % c) + 1
        result == pearsonr(x[i], x[j])
    IN  IF k > c * c THEN [exc |-> None, value |-> matrix]
        ELSE IF i > j THEN FillMatrix(matrix, x, k + 1)
        ELSE IF result.exc # None THEN [exc |-> result.exc, value |-> matrix]
        ELSE FillMatrix([matrix EXCEPT ![i][j] = result.r, ![j][i] = result.r],
                        x, k + 1)

get_correlation_matrix(df) ==
    LET df_corr == to_numeric(df)
        zeros == [i \in 1..Len(df) |-> [j \in 1..Len(df) |-> Zero]]
    IN  FillMatrix(zeros, df_corr, 1)

\* a call get_correlation_matrix(args.df)
call_get_correlation_matrix ==
    /\ ret.fn = None
    /\ LET result == get_correlation_matrix(args.df)
       IN  ret' = [fn |-> "get_correlation_matrix",
                   exc |-> result.exc, value |-> result.value]
    /\ UNCHANGED <<pyplot, workers, jobs, fs, tasks, loop, cwd, sub, resp, bodies, args, doc>>

\* the server has not been started
ServerIdle ==
    /\ jobs = <<>>
    /\ fs = [j \in JobIds |-> EmptyDir]
    /\ tasks = <<>>
    /\ loop = 0
    /\ cwd = 0
    /\ sub = [s \in SubIds |-> [job_id |-> 0, pc |-> "idle", last |-> NoSnapshot, emitted |-> 0]]
    /\ resp = NoResp
    /\ bodies = {}

InitCorrelation ==
    /\ ServerIdle
    /\ \E df \in Datasets : args = [NoArgs EXCEPT !.df = df]
    /\ ret = NoRet
    /\ doc = NoDoc
    /\ pyplot = NoPyplot
    /\ workers = NoWorkers

NextCorrelation == call_get_correlation_matrix

SpecCorrelation == InitCorrelation /\ [][NextCorrelation]_vars

(* ------------------------------- C16 ----------------------------------- *)
\* C16: for every dataset get_correlation_matrix returns a matrix, the
\* matrix is symmetric and each of its diagonal entries is 1.0.
C16_SymmetricUnitDiagonal ==
    ret.fn = "get_correlation_matrix" =>
        /\ ret.exc = None
        /\ \A a, b \in 1..NCols(args.df) : ret.value[a][b] = ret.value[b][a]
        /\ \A a \in 1..NCols(args.df) : ret.value[a][a] = One

(* ----------------------- get_clustering_analysis ----------------------- *)
MaxK == 3

\* row i of the numeric frame
Row(x, i) == [c \in 1..Len(x) |-> x[c][i]]

DistinctRows(x, n) == {Row(x, i) : i \in 1..n}

Min(a, b) == IF a < b THEN a ELSE b

\* KMeans(n_clusters, random_state=42).fit_predict(x): ValueError when there
\* are fewer rows than clusters; else a label 0..n_clusters-1 for each row,
\* equal rows in one cluster, and as many non-empty clusters as there are
\* distinct rows, up to n_clusters.  Which partition and which numbering
\* the seeded k-means++ run ends with is left open.
KMeans_fit_predict(x, n, n_clusters) ==
    IF n < n_clusters THEN {}
    ELSE {clusters \in [1..n -> 0..(n_clusters - 1)] :
            /\ \A i, j \in 1..n : Row(x, i) = Row(x, j) => clusters[i] = clusters[j]
            /\ Cardinality({clusters[i] : i \in 1..n})
                    = Min(n_clusters, Cardinality(DistinctRows(x, n)))}

\* Series.value_counts().sort_index(): the number of rows under each label
\* that occurs
value_counts(clusters) ==
    [label \in {clusters[i] : i \in 1..Len(clusters)} |->
        Cardinality({i \in 1..Len(clusters) : clusters[i] = label})]

\* what follows fit_predict: the "Count" column, cluster_counts[i] for i in
\* range(n_clusters), a KeyError for a label with no row; then PCA with two
\* components, a ValueError with fewer than two rows or two columns
clustering_summary(df, n_clusters, clusters) ==
    LET cluster_counts == value_counts(clusters)
    IN  IF \E i \in 0..(n_clusters - 1) : i \notin DOMAIN cluster_counts
        THEN [exc |-> "KeyError", value |-> <<>>]
        ELSE IF Min(NRows(df), NCols(df)) < 2
        THEN [exc |-> "ValueError", value |-> <<>>]
        ELSE [exc |-> None,
              value |-> [i \in 1..n_clusters |-> cluster_counts[i - 1]]]

\* a call get_clustering_analysis(args.df, output_dir, args.n_clusters); the
\* value kept is the "Count" column of the table
call_get_clustering_analysis ==
    /\ ret.fn = None
    /\ LET x == to_numeric(args.df)
           fits == KMeans_fit_predict(x, NRows(args.df), args.n_clusters)
       IN  IF fits = {}
           THEN ret' = [fn |-> "get_clustering_analysis",
                        exc |-> "ValueError", value |-> <<>>]
           ELSE \E clusters \in fits :
                   LET result == clustering_summary(args.df, args.n_clusters, clusters)
                   IN  ret' = [fn |-> "get_clustering_analysis",
                               exc |-> result.exc, value |-> result.value]
    /\ UNCHANGED <<pyplot, workers, jobs, fs, tasks, loop, cwd, sub, resp, bodies, args, doc>>

InitClustering ==
    /\ ServerIdle
    /\ \E df \in Datasets, k \in 1..MaxK :
            args = [NoArgs EXCEPT !.df = df, !.n_clusters = k]
    /\ ret = NoRet
    /\ doc = NoDoc
    /\ pyplot = NoPyplot
    /\ workers = NoWorkers

NextClustering == call_get_clustering_analysis

SpecClustering == InitClustering /\ [][NextClustering]_vars

(* ------------------------------- C17 ----------------------------------- *)
\* C17: for every dataset of at least one row and every n_clusters >= 1,
\* get_clustering_analysis returns, with one count for each of the clusters
\* 0..n_clusters-1, and the counts add up to the number of rows.
C17_CountsSumToRows ==
    (ret.fn = "get_clustering_analysis" /\ NRows(args.df) >= 1) =>
        /\ ret.exc = None
        /\ Len(ret.value) = args.n_clusters
        /\ SumOf(ret.value, Len(ret.value)) = NRows(args.df)

(* ----------------------- get_regression_results ------------------------ *)
MaxB == 2

\* f"regression_{target}.png"
plot_filename(target) == <<"regression_", target, ".png">>

\* range(B): the iterations of `for _ in range(B)`
range(B) == 0..(B - 1)

\* variant: for _ in range(B + 1)
bootstrap_one_more(figure, B) ==
    [figure EXCEPT !.gray = @ + Cardinality(range(B + 1))]

\* for _ in range(B): resample, refit and plt.plot one gray line on the
\* current figure, in each iteration
bootstrap(figure, B) ==
    [figure EXCEPT !.gray = @ + Cardinality(range(B))]

\* the loop over the columns from column target on: a metrics row, a new
\* figure with the scatter and the reference line (y.min() raises
\* ValueError on a column with no row), the bootstrap lines, savefig under
\* the plot's file name, and the pair (target, file name)
RECURSIVE regress(_, _, _, _)
regress(df, B, target, out) ==
    LET figure == bootstrap([scatter |-> 1, ideal |-> 1, gray |-> 0], B)
    IN  IF target > NCols(df) THEN out
        ELSE IF NRows(df) = 0
        THEN [out EXCEPT !.exc = "ValueError",
                         !.metrics = Append(@, target)]
        ELSE regress(df, B, target + 1,
                     [out EXCEPT
                        !.metrics = Append(@, target),
                        !.saved = Append(@, [file |-> plot_filename(target),
                                             gray |-> figure.gray]),
                        !.regression_plots =
                            Append(@, <<target, plot_filename(target)>>)])

\* metrics holds the Target column of the table
get_regression_results(df, B) ==
    regress(df, B, 1,
            [exc |-> None, metrics |-> <<>>, saved |-> <<>>, regression_plots |-> <<>>])

\* a call get_regression_results(args.df, output_dir, args.B)
call_get_regression_results ==
    /\ ret.fn = None
    /\ LET result == get_regression_results(args.df, args.B)
       IN  ret' = [fn |-> "get_regression_results", exc |-> result.exc,
                   value |-> result]
    /\ UNCHANGED <<pyplot, workers, jobs, fs, tasks, loop, cwd, sub, resp, bodies, args, doc>>

InitRegression ==
    /\ ServerIdle
    /\ \E df \in Datasets, B \in 0..MaxB : args = [NoArgs EXCEPT !.df = df, !.B = B]
    /\ ret = NoRet
    /\ doc = NoDoc
    /\ pyplot = NoPyplot
    /\ workers = NoWorkers

NextRegression == call_get_regression_results

SpecRegression == InitRegression /\ [][NextRegression]_vars

(* ------------------------------- C18 ----------------------------------- *)
\* the call returned one metrics row and one plot for each column, in the
\* order of the columns, each plot saved with exactly B bootstrap lines
OnePlotPerColumn ==
    /\ ret.exc = None
    /\ ret.value.metrics = [c \in 1..NCols(args.df) |-> c]
    /\ ret.value.regression_plots
            = [c \in 1..NCols(args.df) |-> <<c, plot_filename(c)>>]
    /\ ret.value.saved
            = [c \in 1..NCols(args.df) |->
                    [file |-> plot_filename(c), gray |-> args.B]]

DefaultB == 100

DefaultClusters == 3

\* pd.plotting.scatter_matrix(df, diagonal='kde'): the density estimate of
\* a column is left open (it may raise) when the frame has no numeric
\* column or a numeric column is constant
scatter_matrix(df) ==
    IF \/ \A c \in 1..NCols(df) : df[c].kind # "numeric"
       \/ \E c \in 1..NCols(df) :
            /\ df[c].kind = "numeric"
            /\ \A i, j \in 1..NRows(df) : df[c].values[i] = df[c].values[j]
    THEN {None, "LinAlgError"}
    ELSE {None}

\* run_analysis(df, output_dir): the exceptions it can end with, None when
\* it returns; the four analyses run one after the other and the first
\* exception ends the call
run_analysis(df) ==
    LET corr == get_correlation_matrix(df)
        regression == get_regression_results(df, DefaultB)
        fits == KMeans_fit_predict(to_numeric(df), NRows(df), DefaultClusters)
        clustering ==
            IF fits = {} THEN {"ValueError"}
            ELSE {clustering_summary(df, DefaultClusters, clusters).exc :
                        clusters \in fits}
    IN  IF corr.exc # None THEN {corr.exc}
        ELSE (scatter_matrix(df) \ {None}) \cup
             (IF None \notin scatter_matrix(df) THEN {}
              ELSE IF regression.exc # None THEN {regression.exc}
              ELSE clustering)

\* CACHE_DIR / job_id / "main.pdf"
pdf_path(job_id) == <<"cache", job_id, "main.pdf">>

DocAt(label) == doc.pc = label /\ ret.fn = None

DocRaise(e) ==
    /\ doc' = [doc EXCEPT !.pc = "raised"]
    /\ ret' = [fn |-> "gen_latex_document", exc |-> e, value |-> <<>>]

\* output_dir.mkdir(parents=True, exist_ok=True)
G227_mkdir ==
    /\ DocAt("idle")
    /\ args.job_id \in JobIds
    /\ fs' = [fs EXCEPT ![args.job_id].dir = TRUE]
    /\ doc' = [doc EXCEPT !.pc = "l232"]
    /\ UNCHANGED <<pyplot, workers, jobs, tasks, loop, cwd, sub, resp, bodies, args, ret>>

\* analysis_results = run_analysis(df, output_dir)
G232_run_analysis ==
    /\ DocAt("l232")
    /\ \E e \in run_analysis(args.df) :
        IF e = None
        THEN doc' = [doc EXCEPT !.pc = "l293"] /\ ret' = ret
        ELSE DocRaise(e)
    /\ UNCHANGED <<pyplot, workers, jobs, fs, tasks, loop, cwd, sub, resp, bodies, args>>

\* with open(tex_path, "w") as f: f.write(tex)
G293_write_tex ==
    /\ DocAt("l293")
    /\ \E ok \in BOOLEAN :
        IF ok
        THEN /\ fs' = [fs EXCEPT ![args.job_id].tex = TRUE]
             /\ doc' = [doc EXCEPT !.pc = "l297"]
             /\ ret' = ret
        ELSE /\ fs' = fs
             /\ DocRaise("OSError")
    /\ UNCHANGED <<pyplot, workers, jobs, tasks, loop, cwd, sub, resp, bodies, args>>

\* cwd = Path.cwd(); os.chdir(output_dir)
G297_chdir ==
    /\ DocAt("l297")
    /\ doc' = [doc EXCEPT !.pc = "l299", !.saved_cwd = cwd]
    /\ cwd' = args.job_id
    /\ UNCHANGED <<pyplot, workers, jobs, fs, tasks, loop, sub, resp, bodies, args, ret>>

\* os.system("latexmk -lualatex -output-directory=./ ./main.tex"), its
\* return value discarded
G299_latexmk ==
    /\ DocAt("l299")
    /\ \E r \in RenderOutcomes :
        /\ doc' = [doc EXCEPT !.pc = "l300", !.rc = r.rc]
        /\ fs' = IF cwd \in JobIds /\ r.out # Absent
                 THEN [fs EXCEPT ![cwd].pdf = r.out]
                 ELSE fs
    /\ UNCHANGED <<pyplot, workers, jobs, tasks, loop, cwd, sub, resp, bodies, args, ret>>

\* os.chdir(cwd)
G300_chdir_back ==
    /\ DocAt("l300")
    /\ cwd' = doc.saved_cwd
    /\ doc' = [doc EXCEPT !.pc = "l302"]
    /\ UNCHANGED <<pyplot, workers, jobs, fs, tasks, loop, sub, resp, bodies, args, ret>>

\* return pdf_path
G302_return ==
    /\ DocAt("l302")
    /\ doc' = [doc EXCEPT !.pc = "returned"]
    /\ ret' = [fn |-> "gen_latex_document", exc |-> None,
               value |-> pdf_path(args.job_id)]
    /\ UNCHANGED <<pyplot, workers, jobs, fs, tasks, loop, cwd, sub, resp, bodies, args>>

gen_latex_document ==
    \/ G227_mkdir
    \/ G232_run_analysis
    \/ G293_write_tex
    \/ G297_chdir
    \/ G299_latexmk
    \/ G300_chdir_back
    \/ G302_return

InitDocument ==
    /\ ServerIdle
    /\ \E df \in Datasets, job_id \in JobIds :
            args = [NoArgs EXCEPT !.df = df, !.job_id = job_id]
    /\ ret = NoRet
    /\ doc = NoDoc
    /\ pyplot = NoPyplot
    /\ workers = NoWorkers

NextDocument == gen_latex_document

SpecDocument == InitDocument /\ [][NextDocument]_vars

(* ------------------------------- C15 ----------------------------------- *)
\* C15: when gen_latex_document(job_id, df) returns, it returns the path
\* CACHE_DIR/<job_id>/main.pdf, the directory of the job exists and the
\* path names a file that exists and is not empty.
C15_ReturnedPdfExists ==
    (ret.fn = "gen_latex_document" /\ ret.exc = None) =>
        /\ ret.value = pdf_path(args.job_id)
        /\ fs[args.job_id].dir
        /\ fs[args.job_id].pdf \notin {Absent, ""}

(* ------------------------------- C22 ----------------------------------- *)
\* the statements from the write of progress 60 to the write of progress 95
RenderSection == {"l173", "l175", "l176", "l181", "l182"}

\* C22: from the write of progress 60 to the write of progress 95 the
\* execution holds the event loop, so whenever an observer can run no job
\* entry has progress 60, and every snapshot job_progress has emitted has
\* progress 0, 20, 40, 95 or 100.
C22_Progress60NeverObserved ==
    /\ \A t \in DOMAIN tasks : tasks[t].pc \in RenderSection => loop = t
    /\ loop = 0 => \A j \in DOMAIN jobs : jobs[j].progress # 60
    /\ \A s \in SubIds :
         sub[s].emitted > 0 => sub[s].last.progress \in {0, 20, 40, 95, 100}

\* the renderer runs for a job at progress 60 while a subscriber of that
\* job, whose last snapshot showed 40, waits for its next poll
C22_Witness ==
    \E s \in SubIds, t \in DOMAIN tasks :
        /\ tasks[t].pc = "l175"
        /\ loop = t
        /\ jobs[JobOf(t)].progress = 60
        /\ sub[s].job_id = JobOf(t)
        /\ sub[s].pc = "sleeping"
        /\ sub[s].last.progress = 40

(* ------------------------------- C23 ----------------------------------- *)
\* the statements that run in the directory of the job
InJobDirectory == {"l175", "l176"}

\* C23: the working directory differs from its original value only while
\* one process_job execution runs the renderer or is about to change back,
\* and that execution holds the event loop and has saved the original
\* value; so every step of upload_csv, sse_endpoint, job_progress,
\* get_result and of any other execution starts and ends in the original
\* directory, where the paths under CACHE_DIR resolve.
C23_WorkingDirectoryRestored ==
    /\ [](loop = 0 => cwd = 0)
    /\ [](cwd # 0 =>
            \E t \in DOMAIN tasks :
                /\ loop = t
                /\ tasks[t].pc \in InJobDirectory
                /\ cwd = JobOf(t)
                /\ tasks[t].saved_cwd = 0)
    /\ [][(resp' # resp \/ sub' # sub) => (cwd = 0 /\ cwd' = 0)]_vars
    /\ [][\A t \in DOMAIN tasks :
            (tasks'[t] # tasks[t] /\ tasks[t].pc \notin InJobDirectory) =>
                cwd = 0]_vars
    /\ [][\A t \in DOMAIN tasks :
            (tasks'[t].pc = "l199" /\ tasks[t].pc = "s183") =>
                fs[JobOf(t)].pdf = Absent]_vars

\* the renderer of one job has run in the job's directory while the other
\* job's execution is suspended, a subscriber waits and a get_result call
\* was answered
C23_Witness ==
    \E t, u \in DOMAIN tasks :
        /\ tasks[t].pc = "l176"
        /\ cwd = JobOf(t)
        /\ tasks[u].pc = "s130"
        /\ \E s \in SubIds : sub[s].pc = "sleeping"
        /\ resp.op = "result"

(* ------------------- the analyses run at the same time ------------------ *)
\* matplotlib.pyplot keeps one list of open figures for the whole process;
\* the last one is the current figure, on which plt.scatter, plt.plot,
\* plt.savefig and plt.close act.  A figure is modelled by the number of
\* artists of each sort drawn on it; labels, title, legend and colorbar are
\* left out.
NewFigure == [scatter |-> 0, ideal |-> 0, gray |-> 0, clusters |-> 0]

\* plt.figure(): a new figure, which becomes the current one
plt_figure(p) == [p EXCEPT !.figs = Append(@, NewFigure)]

\* plt.gcf(): the current figure, a new one when none is open
plt_gcf(p) == IF p.figs = <<>> THEN plt_figure(p) ELSE p

\* plt.scatter / plt.plot: one more artist on the current figure
plt_draw(p, artist) ==
    LET q == plt_gcf(p)
    IN  [q EXCEPT !.figs[Len(q.figs)][artist] = @ + 1]

\* plt.savefig(path): the current figure is written to the file
plt_savefig(p, file) ==
    LET q == plt_gcf(p)
    IN  [q EXCEPT !.saved = Append(@, [file |-> file,
                                       figure |-> q.figs[Len(q.figs)]])]

\* plt.close(): the current figure is closed, the one opened before it
\* becomes current; nothing happens when none is open
plt_close(p) ==
    IF p.figs = <<>> THEN p
    ELSE [p EXCEPT !.figs = SubSeq(@, 1, Len(@) - 1)]

\* "clustering.png"
clustering_plot_filename == <<"clustering", 0, ".png">>

WorkerAt(w, label) == workers[w].pc = label

\* get_correlation_matrix(args.df) as one step: it calls nothing of pyplot
W_correlation ==
    /\ WorkerAt("correlation", "idle")
    /\ workers' = [workers EXCEPT !.correlation.pc =
            IF get_correlation_matrix(args.df).exc = None THEN "done" ELSE "raised"]
    /\ UNCHANGED <<pyplot, jobs, fs, tasks, loop, cwd, sub, resp, bodies, args, ret, doc>>

\* get_regression_results: df.copy() and the conversion, then the first
\* pass of `for target in df_numeric.columns`
R66_copy ==
    /\ WorkerAt("regression", "idle")
    /\ workers' = [workers EXCEPT !.regression.pc = "l75", !.regression.target = 1]
    /\ UNCHANGED <<pyplot, jobs, fs, tasks, loop, cwd, sub, resp, bodies, args, ret, doc>>

\* the fit of one target, metrics.append, and plt.figure(figsize=(6, 6))
R94_figure ==
    /\ WorkerAt("regression", "l75")
    /\ workers.regression.target <= NCols(args.df)
    /\ workers' = [workers EXCEPT !.regression.pc = "l95",
                                  !.regression.metrics = Append(@, workers.regression.target)]
    /\ pyplot' = plt_figure(pyplot)
    /\ UNCHANGED <<jobs, fs, tasks, loop, cwd, sub, resp, bodies, args, ret, doc>>

\* plt.scatter(y, y_pred, ...)
R95_scatter ==
    /\ WorkerAt("regression", "l95")
    /\ workers' = [workers EXCEPT !.regression.pc = "l97"]
    /\ pyplot' = plt_draw(pyplot, "scatter")
    /\ UNCHANGED <<jobs, fs, tasks, loop, cwd, sub, resp, bodies, args, ret, doc>>

\* plt.plot([y.min(), y.max()], ...): y.min() raises ValueError on a column
\* with no row
R97_plot_ideal ==
    /\ WorkerAt("regression", "l97")
    /\ IF NRows(args.df) = 0
       THEN /\ workers' = [workers EXCEPT !.regression.pc = "raised"]
            /\ UNCHANGED pyplot
       ELSE /\ workers' = [workers EXCEPT !.regression.pc = "l100", !.regression.b = 0]
            /\ pyplot' = plt_draw(pyplot, "ideal")
    /\ UNCHANGED <<jobs, fs, tasks, loop, cwd, sub, resp, bodies, args, ret, doc>>

\* one pass of `for _ in range(B)`: plt.plot(x_line, y_line, color='gray')
R109_plot_gray ==
    /\ WorkerAt("regression", "l100")
    /\ workers.regression.b \in range(args.B)
    /\ workers' = [workers EXCEPT !.regression.b = @ + 1]
    /\ pyplot' = plt_draw(pyplot, "gray")
    /\ UNCHANGED <<jobs, fs, tasks, loop, cwd, sub, resp, bodies, args, ret, doc>>

\* after the loop: plt.savefig(output_dir / plot_filename)
R118_savefig ==
    /\ WorkerAt("regression", "l100")
    /\ workers.regression.b \notin range(args.B)
    /\ workers' = [workers EXCEPT !.regression.pc = "l119"]
    /\ pyplot' = plt_savefig(pyplot, plot_filename(workers.regression.target))
    /\ UNCHANGED <<jobs, fs, tasks, loop, cwd, sub, resp, bodies, args, ret, doc>>

\* plt.close(), regression_plots.append, and on to the next target
R119_close ==
    /\ WorkerAt("regression", "l119")
    /\ workers' = [workers EXCEPT
            !.regression.pc = "l75",
            !.regression.regression_plots =
                Append(@, <<workers.regression.target,
                            plot_filename(workers.regression.target)>>),
            !.regression.target = @ + 1]
    /\ pyplot' = plt_close(pyplot)
    /\ UNCHANGED <<jobs, fs, tasks, loop, cwd, sub, resp, bodies, args, ret, doc>>

\* the loop over the columns is over: the table and the list are returned
R127_return ==
    /\ WorkerAt("regression", "l75")
    /\ workers.regression.target > NCols(args.df)
    /\ workers' = [workers EXCEPT !.regression.pc = "done"]
    /\ UNCHANGED <<pyplot, jobs, fs, tasks, loop, cwd, sub, resp, bodies, args, ret, doc>>

\* get_clustering_analysis up to the PCA: df.copy(), KMeans, the 'Cluster'
\* column added to the copy, the summary table, the projection
K148_fit_predict ==
    /\ WorkerAt("clustering", "idle")
    /\ LET fits == KMeans_fit_predict(to_numeric(args.df), NRows(args.df), args.n_clusters)
       IN  IF fits = {}
           THEN workers' = [workers EXCEPT !.clustering.pc = "raised"]
           ELSE \E clusters \in fits :
                   LET result == clustering_summary(args.df, args.n_clusters, clusters)
                   IN  workers' = [workers EXCEPT
                            !.clustering.pc = IF result.exc = None THEN "l169" ELSE "raised",
                            !.clustering.counts = result.value]
    /\ UNCHANGED <<pyplot, jobs, fs, tasks, loop, cwd, sub, resp, bodies, args, ret, doc>>

\* plt.figure(figsize=(6, 6))
K169_figure ==
    /\ WorkerAt("clustering", "l169")
    /\ workers' = [workers EXCEPT !.clustering.pc = "l170"]
    /\ pyplot' = plt_figure(pyplot)
    /\ UNCHANGED <<jobs, fs, tasks, loop, cwd, sub, resp, bodies, args, ret, doc>>

\* plt.scatter(pca_result[:, 0], pca_result[:, 1], c=clusters, ...)
K170_scatter ==
    /\ WorkerAt("clustering", "l170")
    /\ workers' = [workers EXCEPT !.clustering.pc = "l178"]
    /\ pyplot' = plt_draw(pyplot, "clusters")
    /\ UNCHANGED <<jobs, fs, tasks, loop, cwd, sub, resp, bodies, args, ret, doc>>

\* plt.savefig(output_dir / "clustering.png")
K178_savefig ==
    /\ WorkerAt("clustering", "l178")
    /\ workers' = [workers EXCEPT !.clustering.pc = "l179"]
    /\ pyplot' = plt_savefig(pyplot, clustering_plot_filename)
    /\ UNCHANGED <<jobs, fs, tasks, loop, cwd, sub, resp, bodies, args, ret, doc>>

\* plt.close() and the return
K179_close ==
    /\ WorkerAt("clustering", "l179")
    /\ workers' = [workers EXCEPT !.clustering.pc = "done"]
    /\ pyplot' = plt_close(pyplot)
    /\ UNCHANGED <<jobs, fs, tasks, loop, cwd, sub, resp, bodies, args, ret, doc>>

\* the analyses are run at the same time on the datasets of at most this
\* many rows, read from a CSV file of numbers (no column needs the
\* conversion to codes)
MaxConcurrentRows == 2

NumericDatasets ==
    {df \in Datasets :
        /\ NRows(df) <= MaxConcurrentRows
        /\ \A c \in 1..NCols(df) : df[c].kind = "numeric"}

\* the three analyses are started on one dataset, and a step of any of
\* them may come next
InitConcurrent ==
    /\ ServerIdle
    /\ \E df \in NumericDatasets, B \in 0..MaxB, k \in 1..MaxK :
            args = [NoArgs EXCEPT !.df = df, !.B = B, !.n_clusters = k]
    /\ ret = NoRet
    /\ doc = NoDoc
    /\ pyplot = NoPyplot
    /\ workers = NoWorkers

NextConcurrent ==
    \/ W_correlation
    \/ R66_copy
    \/ R94_figure
    \/ R95_scatter
    \/ R97_plot_ideal
    \/ R109_plot_gray
    \/ R118_savefig
    \/ R119_close
    \/ R127_return
    \/ K148_fit_predict
    \/ K169_figure
    \/ K170_scatter
    \/ K178_savefig
    \/ K179_close

SpecConcurrent == InitConcurrent /\ [][NextConcurrent]_vars

(* ------------------------------- C21 ----------------------------------- *)
\* the figure that the sequential run saves under a regression file name
RegressionFigure(gray) == [scatter |-> 1, ideal |-> 1, gray |-> gray, clusters |-> 0]

\* the figure that the sequential run saves as the clustering plot
ClusteringFigure == [scatter |-> 0, ideal |-> 0, gray |-> 0, clusters |-> 1]

AllReturned == \A w \in DOMAIN workers : workers[w].pc \in {"done", "raised"}

\* C21: when correlation, regression and clustering run at the same time on
\* one dataset, then whatever the interleaving, once all three are over the
\* input is as it was, the regression table and plot list are those of the
\* sequential run, and the plot files hold the figures that the sequential
\* run saves: each regression plot its own scatter, reference line and B
\* bootstrap lines, the clustering plot its own scatter, and no figure is
\* left open by an analysis that returned.
C21_InterleavingsAgree ==
    LET sequential == get_regression_results(args.df, args.B)
        expected(file) ==
            IF file = clustering_plot_filename THEN ClusteringFigure
            ELSE RegressionFigure(Cardinality(range(args.B)))
    IN  /\ args.df \in Datasets
        /\ \A k \in DOMAIN pyplot.saved :
                pyplot.saved[k].figure = expected(pyplot.saved[k].file)
        /\ AllReturned =>
            /\ workers.regression.metrics = sequential.metrics
            /\ workers.regression.regression_plots = sequential.regression_plots
            /\ (workers.regression.pc = "raised") = (sequential.exc # None)
            /\ \A i \in DOMAIN sequential.saved :
                    \E k \in DOMAIN pyplot.saved :
                        pyplot.saved[k] =
                            [file |-> sequential.saved[i].file,
                             figure |-> RegressionFigure(sequential.saved[i].gray)]
            /\ workers.clustering.pc = "done" =>
                    \E k \in DOMAIN pyplot.saved :
                        pyplot.saved[k].file = clustering_plot_filename
            /\ Len(pyplot.saved) = Len(sequential.saved)
                    + (IF workers.clustering.pc = "done" THEN 1 ELSE 0)
            /\ (workers.regression.pc = "done" /\ workers.clustering.pc = "done")
                    => pyplot.figs = <<>>
====
